---- MODULE Spec2Model ----
(***************************************************************************)
(* Kolam-Ikan backend: the receivable ledger (routes/debts.js) and the     *)
(* transaction recorder (routes/transactions.js) over the SQLite tables    *)
(* transactions, debts and debt_payments (config/database.js).             *)
(*                                                                         *)
(* Every request handler is one action (sequential execution: a handler    *)
(* runs all its SQL statements before the next request starts).  The       *)
(* caller is already authenticated: req.user carries a role.  Request      *)
(* fields keep their JavaScript form (number, numeral string, undefined),  *)
(* since the handlers test them with `!x`; weights are counted in          *)
(* 1/WeightScale kg so that Math.round has something to round.             *)
(***************************************************************************)
EXTENDS Integers, Sequences, FiniteSets, TLC

VARIABLES transactions, debts, payments, ponds, expenses, nextTx, nextDebt,
          nextPond, reqs, last

vars ==
  <<transactions, debts, payments, ponds, expenses, nextTx, nextDebt,
    nextPond, reqs, last>>

\* the ponds table and its AUTOINCREMENT counter
pondVars == <<ponds, nextPond>>

(***************************************************************************)
(* Bounds of the model.                                                    *)
(***************************************************************************)
\* number of transaction rows ever inserted (AUTOINCREMENT ids 1..MaxTx)
MaxTx == 1
\* number of debt rows ever inserted
MaxDebt == 2
\* number of payment rows ever inserted
MaxPay == 2
\* number of transaction rows ever inserted when handlers run statement by
\* statement
MaxSales == 2
\* number of handlers running at the same time
MaxReq == 2
\* number of expense rows ever inserted
MaxExp == 2
\* number of pond rows ever inserted, the default ponds included
MaxPond == 6
\* weights are carried in units of 1/WeightScale kg, so that
\* weight_kg * price_per_kg has a fractional part for Math.round to round
WeightScale == 2

(***************************************************************************)
(* JavaScript request values.  A numeric field of req.body arrives as a    *)
(* number (JSON body), as a string holding a decimal numeral (form-encoded *)
(* body, or a quoted JSON value) or not at all (undefined).  v is the      *)
(* number the value denotes.                                               *)
(***************************************************************************)
JsUndefined == [t |-> "undefined", v |-> 0]
JsNumber(n) == [t |-> "number", v |-> n]
JsString(n) == [t |-> "string", v |-> n]

\* JavaScript truthiness, the test behind `!x` and `x || y`: undefined, the
\* number 0 and the empty string are falsy; a numeral string such as "0" is
\* not empty, hence truthy.
Truthy(x) ==
  CASE x.t = "undefined" -> FALSE
    [] x.t = "number" -> x.v # 0
    [] x.t = "string" -> TRUE

\* a string-valued field (date, payment_date, payment_status, query
\* parameters): absent is the value Undefined
Undefined == "undefined"
TruthyStr(s) == s # Undefined /\ s # ""

\* NaN arises from arithmetic on undefined; sqlite3 binds undefined and NaN
\* as SQL NULL
IsNull(x) == x.t = "undefined"

\* SQL NULL in an id column (AUTOINCREMENT ids start at 1)
NULL == 0

(***************************************************************************)
(* Input domains.                                                          *)
(***************************************************************************)
Roles == {"employee", "admin", "owner"}
\* customer ids in use (distinct from every transaction and debt id)
CustomerIds == {7}
TxIds == 1..MaxTx
DebtIds == 1..MaxDebt
Dates == {Undefined, "2024-01-01"}
PaymentStatuses == {Undefined, "paid", "unpaid"}
\* weights in 1/WeightScale kg: absent, 0, a fraction as a number and as a
\* string numeral
WeightInputs == {JsUndefined, JsNumber(0), JsNumber(1), JsString(1)}
PriceInputs == {JsUndefined, JsNumber(3)}
CustomerInputs == {JsUndefined} \cup {JsNumber(c) : c \in CustomerIds}
\* the customerId query parameter of GET /debts
CustomerQueries == {JsUndefined} \cup {JsString(c) : c \in CustomerIds}
AmountInputs == {JsUndefined, JsNumber(0), JsString(0), JsNumber(0 - 1),
                 JsNumber(1)}
\* request bodies of POST /debts/:id/payments, as <<payment_date, amount>>:
\* both well-formed, or exactly one of them absent or zero
PaymentBodies ==
  {<<d, a>> : d \in Dates \ {Undefined}, a \in AmountInputs}
    \cup {<<Undefined, JsNumber(1)>>}
\* request bodies of POST and PUT /transactions, as
\* <<date, customer_id, weight_kg, price_per_kg>>: every field well-formed,
\* or exactly one of them absent or zero
ValidTxBody ==
  {<<d, c, w, p>> : d \in Dates \ {Undefined},
                    c \in CustomerInputs \ {JsUndefined},
                    w \in {x \in WeightInputs : Truthy(x)},
                    p \in PriceInputs \ {JsUndefined}}
TxBodies ==
  ValidTxBody
    \cup {<<Undefined, b[2], b[3], b[4]>> : b \in ValidTxBody}
    \cup {<<b[1], JsUndefined, b[3], b[4]>> : b \in ValidTxBody}
    \cup {<<b[1], b[2], w, b[4]>> :
            b \in ValidTxBody, w \in {x \in WeightInputs : ~Truthy(x)}}
    \cup {<<b[1], b[2], b[3], JsUndefined>> : b \in ValidTxBody}
\* request bodies of POST /transactions with zero, negative and empty values
WideDates == Dates \cup {""}
WideWeights == WeightInputs \cup {JsString(0), JsNumber(0 - 1)}
WidePrices == PriceInputs \cup {JsNumber(0), JsString(0), JsNumber(0 - 3)}
WideTxBodies == WideDates \X CustomerInputs \X WideWeights \X WidePrices

(***************************************************************************)
(* Helpers over the tables.                                                *)
(***************************************************************************)
RECURSIVE SumAmounts(_)
SumAmounts(rows) ==
  IF rows = <<>> THEN 0 ELSE Head(rows).amount + SumAmounts(Tail(rows))

\* the payment rows of debt id, in insertion order
PaymentsOf(id) == SelectSeq(payments, LAMBDA p : p.debt_id = id)

\* SELECT COALESCE(SUM(amount), 0) FROM debt_payments WHERE debt_id = ?
TotalPaid(id) == SumAmounts(PaymentsOf(id))

\* the ids of the debt rows WHERE transaction_id = ?
DebtsOfTx(id) == {d \in DOMAIN debts : debts[d].transaction_id = id}

\* Math.round(x) = floor(x + 1/2), for x = n / WeightScale
MathRound(n) == (2 * n + WeightScale) \div (2 * WeightScale)

\* const total = Math.round(weight_kg * price_per_kg); NaN when an operand
\* is undefined
Total(weight_kg, price_per_kg) ==
  IF IsNull(weight_kg) \/ IsNull(price_per_kg) THEN JsUndefined
  ELSE JsNumber(MathRound(weight_kg.v * price_per_kg.v))

NoBody == {}

\* the requests in flight, for the statement-by-statement specifications: a
\* slot holds the locals of one running handler, and is Idle between requests
Slots == 1..MaxReq
Idle == [op |-> "idle", pc |-> "idle", id |-> NULL, n |-> 0, read |-> 0,
         sum |-> 0, cust |-> NULL, status |-> Undefined]

\* the rows createTables inserts into ponds
defaultPonds ==
  <<[name |-> "Kolam 1", type |-> "production"],
    [name |-> "Kolam 2", type |-> "production"],
    [name |-> "Kolam 3", type |-> "production"],
    [name |-> "Kolam 4", type |-> "production"],
    [name |-> "Kolam Penampungan", type |-> "holding"]>>

Init ==
  /\ transactions = <<>>
  /\ debts = <<>>
  /\ payments = <<>>
  /\ nextTx = 1
  /\ nextDebt = 1
  /\ ponds = [i \in 1..Len(defaultPonds) |-> defaultPonds[i]]
  /\ nextPond = Len(defaultPonds) + 1
  /\ expenses = <<>>
  /\ reqs = [r \in Slots |-> Idle]
  /\ last = [op |-> "init", code |-> 0, id |-> NULL, amount |-> JsUndefined,
             date |-> Undefined, status |-> Undefined, role |-> "employee",
             body |-> NoBody]

Respond(op, code, id, amount, date, status, role, body) ==
  last' = [op |-> op, code |-> code, id |-> id, amount |-> amount,
           date |-> date, status |-> status, role |-> role, body |-> body]

(***************************************************************************)
(* POST /debts/:id/payments                                                *)
(***************************************************************************)
\* faulty variant: the amount is not checked
PaymentBodyOk_DateOnly(payment_date, amount) == TruthyStr(payment_date)

\* faulty variant: a positivity check on the amount
PaymentBodyOk_Positive(payment_date, amount) ==
  TruthyStr(payment_date) /\ Truthy(amount) /\ amount.v > 0

\* if (!payment_date || !amount) return 400
PaymentBodyOk(payment_date, amount) ==
  TruthyStr(payment_date) /\ Truthy(amount)

\* faulty variant: > in place of >=
PaidUpdate_StrictCompare(debt, totalPaid) ==
  IF totalPaid > debt.amount
  THEN [debt EXCEPT !.status = "paid", !.paid_amount = totalPaid]
  ELSE [debt EXCEPT !.paid_amount = totalPaid]

\* faulty variant: the status is recomputed in both directions
PaidUpdate_Recompute(debt, totalPaid) ==
  [debt EXCEPT !.status = IF totalPaid >= debt.amount THEN "paid"
                          ELSE "unpaid",
               !.paid_amount = totalPaid]

\* faulty variant: paid_amount is written only together with 'paid'
PaidUpdate_OnlyWhenPaid(debt, totalPaid) ==
  IF totalPaid >= debt.amount
  THEN [debt EXCEPT !.status = "paid", !.paid_amount = totalPaid]
  ELSE debt

\* the UPDATE debts of the handler, applied to the row read before the insert
PaidUpdate(debt, totalPaid) ==
  IF totalPaid >= debt.amount
  THEN [debt EXCEPT !.status = "paid", !.paid_amount = totalPaid]
  ELSE [debt EXCEPT !.paid_amount = totalPaid]

\* faulty variant: a row equal to an earlier one is not inserted again
PaymentsAfterInsert_Dedupes(id, amount) ==
  IF \E i \in 1..Len(payments) :
       payments[i] = [debt_id |-> id, amount |-> amount]
  THEN payments
  ELSE Append(payments, [debt_id |-> id, amount |-> amount])

\* INSERT INTO debt_payments (debt_id, payment_date, amount, ...)
PaymentsAfterInsert(id, amount) ==
  Append(payments, [debt_id |-> id, amount |-> amount])

RecordPayment(id, payment_date, amount) ==
  /\ UNCHANGED <<pondVars, expenses, reqs>>
  /\ IF ~PaymentBodyOk(payment_date, amount)
     THEN /\ Respond("recordPayment", 400, id, amount, payment_date, Undefined,
                     "employee", NoBody)
          /\ UNCHANGED <<transactions, debts, payments, nextTx, nextDebt>>
     ELSE IF id \notin DOMAIN debts
     THEN /\ Respond("recordPayment", 404, id, amount, payment_date, Undefined,
                     "employee", NoBody)
          /\ UNCHANGED <<transactions, debts, payments, nextTx, nextDebt>>
     ELSE /\ Len(payments) < MaxPay
          /\ payments' = PaymentsAfterInsert(id, amount.v)
          /\ LET totalPaid == SumAmounts(SelectSeq(payments',
                                           LAMBDA p : p.debt_id = id))
             IN debts' = [debts EXCEPT ![id] = PaidUpdate(debts[id], totalPaid)]
          /\ Respond("recordPayment", 201, id, amount, payment_date, Undefined,
                     "employee", NoBody)
          /\ UNCHANGED <<transactions, nextTx, nextDebt>>

(***************************************************************************)
(* GET /debts                                                              *)
(***************************************************************************)
\* faulty variant: the stored status is passed through
DebtWithRemaining_StoredStatus(id, debt, totalPaid) ==
  [id |-> id, transaction_id |-> debt.transaction_id,
   customer_id |-> debt.customer_id, amount |-> debt.amount,
   paid_amount |-> totalPaid,
   remaining_amount |-> debt.amount - totalPaid,
   status |-> debt.status]

\* one element of debtsWithRemaining: the stored row with paid_amount,
\* remaining_amount and status overridden from the payment sum
DebtWithRemaining(id, debt, totalPaid) ==
  [id |-> id, transaction_id |-> debt.transaction_id,
   customer_id |-> debt.customer_id, amount |-> debt.amount,
   paid_amount |-> totalPaid,
   remaining_amount |-> debt.amount - totalPaid,
   status |-> IF debt.amount - totalPaid <= 0 THEN "paid" ELSE "unpaid"]

\* the WHERE clause: AND d.status = ? / AND d.customer_id = ? are appended
\* only for a truthy query parameter
ListFilter(debt, status, customerId) ==
  /\ TruthyStr(status) => debt.status = status
  /\ Truthy(customerId) => debt.customer_id = customerId.v

ListDebts(status, customerId) ==
  /\ UNCHANGED <<pondVars, expenses, reqs>>
  /\ Respond("listDebts", 200, NULL, customerId, Undefined, status, "employee",
             {DebtWithRemaining(d, debts[d], TotalPaid(d)) :
                d \in {x \in DOMAIN debts :
                         ListFilter(debts[x], status, customerId)}})
  /\ UNCHANGED <<transactions, debts, payments, nextTx, nextDebt>>

(***************************************************************************)
(* GET /debts/:id and GET /debts/:id/payments                              *)
(***************************************************************************)
\* faulty variant: the rows are joined to the debts table
PaymentRows_OfExistingDebt(id) ==
  IF id \in DOMAIN debts
  THEN {[id |-> i, debt_id |-> id, amount |-> payments[i].amount] :
          i \in {j \in 1..Len(payments) : payments[j].debt_id = id}}
  ELSE {}

\* SELECT * FROM debt_payments WHERE debt_id = ?; the rows carry the same
\* payment_date, so their order is left open and they are kept as a set
PaymentRows(id) ==
  {[id |-> i, debt_id |-> id, amount |-> payments[i].amount] :
     i \in {j \in 1..Len(payments) : payments[j].debt_id = id}}

\* faulty variant: the status is recomputed as the list endpoint does
DebtDetail_ListStatus(id, debt, rows, totalPaid) ==
  [id |-> id, transaction_id |-> debt.transaction_id,
   customer_id |-> debt.customer_id, amount |-> debt.amount,
   payments |-> rows, paid_amount |-> totalPaid,
   remaining_amount |-> debt.amount - totalPaid,
   status |-> IF debt.amount - totalPaid <= 0 THEN "paid" ELSE "unpaid"]

\* the response object: the stored row with payments, paid_amount and
\* remaining_amount set from the payment rows; status stays the stored one
DebtDetail(id, debt, rows, totalPaid) ==
  [id |-> id, transaction_id |-> debt.transaction_id,
   customer_id |-> debt.customer_id, amount |-> debt.amount,
   payments |-> rows, paid_amount |-> totalPaid,
   remaining_amount |-> debt.amount - totalPaid,
   status |-> debt.status]

\* faulty variant: the read writes the recomputed status back to the row
GetDebt_WritesStatus(id) ==
  /\ UNCHANGED <<pondVars, expenses, reqs>>
  /\ IF id \notin DOMAIN debts
     THEN /\ Respond("getDebt", 404, id, JsUndefined, Undefined, Undefined,
                     "employee", NoBody)
          /\ UNCHANGED <<transactions, debts, payments, nextTx, nextDebt>>
     ELSE /\ Respond("getDebt", 200, id, JsUndefined, Undefined, Undefined,
                     "employee",
                     {DebtDetail(id, debts[id], PaymentRows(id), TotalPaid(id))})
          /\ debts' = [debts EXCEPT ![id].status =
                         IF debts[id].amount - TotalPaid(id) <= 0
                         THEN "paid" ELSE "unpaid"]
          /\ UNCHANGED <<transactions, payments, nextTx, nextDebt>>

GetDebt(id) ==
  /\ UNCHANGED <<pondVars, expenses, reqs>>
  /\ IF id \notin DOMAIN debts
     THEN /\ Respond("getDebt", 404, id, JsUndefined, Undefined, Undefined,
                     "employee", NoBody)
          /\ UNCHANGED <<transactions, debts, payments, nextTx, nextDebt>>
     ELSE /\ Respond("getDebt", 200, id, JsUndefined, Undefined, Undefined,
                     "employee",
                     {DebtDetail(id, debts[id], PaymentRows(id), TotalPaid(id))})
          /\ UNCHANGED <<transactions, debts, payments, nextTx, nextDebt>>

ListPayments(id) ==
  /\ UNCHANGED <<pondVars, expenses, reqs>>
  /\ Respond("listPayments", 200, id, JsUndefined, Undefined, Undefined,
             "employee", PaymentRows(id))
  /\ UNCHANGED <<transactions, debts, payments, nextTx, nextDebt>>

(***************************************************************************)
(* POST /transactions                                                      *)
(***************************************************************************)
\* faulty variant: the two id parameters bound in the wrong order
NewDebt_SwappedIds(transaction_id, customer_id, total) ==
  [transaction_id |-> customer_id, customer_id |-> transaction_id,
   amount |-> total, paid_amount |-> 0, status |-> "unpaid"]

\* INSERT INTO debts (transaction_id, customer_id, amount, status)
\* VALUES (?, ?, ?, 'unpaid'); paid_amount takes its column default
NewDebt(transaction_id, customer_id, total) ==
  [transaction_id |-> transaction_id, customer_id |-> customer_id,
   amount |-> total, paid_amount |-> 0, status |-> "unpaid"]

\* the row written by INSERT INTO transactions / UPDATE transactions SET
TxRow(customer_id, weight_kg, price_per_kg, total, payment_status) ==
  [customer_id |-> IF IsNull(customer_id) THEN NULL ELSE customer_id.v,
   weight_kg |-> weight_kg.v, price_per_kg |-> price_per_kg.v,
   total |-> total.v, payment_status |-> payment_status]

\* faulty variant: the fields are tested for presence only
TxBodyOk_PresenceOnly(date, customer_id, weight_kg, price_per_kg) ==
  /\ date # Undefined /\ ~IsNull(customer_id)
  /\ ~IsNull(weight_kg) /\ ~IsNull(price_per_kg)

\* the negation of  !date || !customer_id || !weight_kg || !price_per_kg
TxBodyOk(date, customer_id, weight_kg, price_per_kg) ==
  /\ TruthyStr(date) /\ Truthy(customer_id)
  /\ Truthy(weight_kg) /\ Truthy(price_per_kg)

\* faulty variant: an absent payment_status is stored as 'unpaid'
StoredStatus_DefaultUnpaid(payment_status) ==
  IF TruthyStr(payment_status) THEN payment_status ELSE "unpaid"

\* payment_status || 'paid'
StoredStatus(payment_status) ==
  IF TruthyStr(payment_status) THEN payment_status ELSE "paid"

\* last.body of a create transaction is the request body it answered
CreateTransaction(date, customer_id, weight_kg, price_per_kg, payment_status) ==
  /\ UNCHANGED <<pondVars, expenses, reqs>>
  /\ IF ~TxBodyOk(date, customer_id, weight_kg, price_per_kg)
     THEN /\ Respond("createTransaction", 400, NULL, JsUndefined, Undefined,
                     payment_status, "employee",
                     {<<date, customer_id, weight_kg, price_per_kg>>})
          /\ UNCHANGED <<transactions, debts, payments, nextTx, nextDebt>>
     ELSE LET total == Total(weight_kg, price_per_kg)
              stored == StoredStatus(payment_status)
          IN /\ nextTx <= MaxTx
             /\ payment_status = "unpaid" => nextDebt <= MaxDebt
             /\ transactions' = transactions @@
                  (nextTx :> TxRow(customer_id, weight_kg, price_per_kg, total,
                                   stored))
             /\ nextTx' = nextTx + 1
             /\ IF payment_status = "unpaid"
                THEN /\ debts' = debts @@
                          (nextDebt :> NewDebt(nextTx, customer_id.v, total.v))
                     /\ nextDebt' = nextDebt + 1
                ELSE UNCHANGED <<debts, nextDebt>>
             /\ Respond("createTransaction", 201, nextTx, JsUndefined, Undefined,
                        payment_status, "employee",
                        {<<date, customer_id, weight_kg, price_per_kg>>})
             /\ UNCHANGED payments

(***************************************************************************)
(* PUT /transactions/:id                                                   *)
(***************************************************************************)
\* UPDATE transactions SET ... WHERE id = ? fails on a NOT NULL column
\* (date, weight_kg, price_per_kg, total, payment_status) when it would
\* write NULL into a matching row; with no matching row it changes nothing
UpdateTxFails(id, date, weight_kg, price_per_kg, total, payment_status) ==
  /\ id \in DOMAIN transactions
  /\ \/ date = Undefined \/ IsNull(weight_kg) \/ IsNull(price_per_kg)
     \/ IsNull(total) \/ payment_status = Undefined

\* faulty variant: total is not recomputed
UpdatedTransactions_StaleTotal(id, customer_id, weight_kg, price_per_kg, total, payment_status) ==
  IF id \in DOMAIN transactions
  THEN [transactions EXCEPT
          ![id] = TxRow(customer_id, weight_kg, price_per_kg,
                        JsNumber(transactions[id].total), payment_status)]
  ELSE transactions

\* UPDATE transactions SET ..., total = ?, ... WHERE id = ?
UpdatedTransactions(id, customer_id, weight_kg, price_per_kg, total, payment_status) ==
  IF id \in DOMAIN transactions
  THEN [transactions EXCEPT
          ![id] = TxRow(customer_id, weight_kg, price_per_kg, total,
                        payment_status)]
  ELSE transactions

\* faulty variant: the new total is added to the amount
SetDebtAmount_Accumulates(id, total) ==
  [d \in DOMAIN debts |->
     IF debts[d].transaction_id = id
     THEN [debts[d] EXCEPT !.amount = @ + total] ELSE debts[d]]

\* faulty variant: the status is reset with the amount
SetDebtAmount_ResetsStatus(id, total) ==
  [d \in DOMAIN debts |->
     IF debts[d].transaction_id = id
     THEN [debts[d] EXCEPT !.amount = total, !.status = "unpaid"]
     ELSE debts[d]]

\* UPDATE debts SET amount = ? WHERE transaction_id = ?
SetDebtAmount(id, total) ==
  [d \in DOMAIN debts |->
     IF debts[d].transaction_id = id
     THEN [debts[d] EXCEPT !.amount = total] ELSE debts[d]]

\* faulty variant: paid_amount is settled together with the status
SetDebtPaid_SettlesAmount(id) ==
  [d \in DOMAIN debts |->
     IF debts[d].transaction_id = id
     THEN [debts[d] EXCEPT !.status = "paid", !.paid_amount = debts[d].amount]
     ELSE debts[d]]

\* UPDATE debts SET status = 'paid' WHERE transaction_id = ?
SetDebtPaid(id) ==
  [d \in DOMAIN debts |->
     IF debts[d].transaction_id = id
     THEN [debts[d] EXCEPT !.status = "paid"] ELSE debts[d]]

UpdateTransaction(id, date, customer_id, weight_kg, price_per_kg, payment_status) ==
  /\ UNCHANGED <<pondVars, expenses, reqs>>
  /\ LET total == Total(weight_kg, price_per_kg)
         R(code) == Respond("updateTransaction", code, id, total,
                            Undefined, payment_status, "employee", NoBody)
     IN
     IF UpdateTxFails(id, date, weight_kg, price_per_kg, total, payment_status)
     THEN /\ R(500)
          /\ UNCHANGED <<transactions, debts, payments, nextTx, nextDebt>>
     ELSE
       /\ transactions' = UpdatedTransactions(id, customer_id, weight_kg,
                                              price_per_kg, total, payment_status)
       /\ UNCHANGED <<payments, nextTx>>
       /\ IF payment_status = "unpaid"
          THEN IF DebtsOfTx(id) = {}
               THEN \* INSERT INTO debts: customer_id and amount are NOT NULL
                    IF IsNull(customer_id) \/ IsNull(total)
                    THEN R(500) /\ UNCHANGED <<debts, nextDebt>>
                    ELSE /\ nextDebt <= MaxDebt
                         /\ debts' = debts @@
                              (nextDebt :> NewDebt(id, customer_id.v, total.v))
                         /\ nextDebt' = nextDebt + 1
                         /\ R(200)
               ELSE \* UPDATE debts SET amount: amount is NOT NULL
                    IF IsNull(total)
                    THEN R(500) /\ UNCHANGED <<debts, nextDebt>>
                    ELSE /\ debts' = SetDebtAmount(id, total.v)
                         /\ R(200)
                         /\ UNCHANGED nextDebt
          ELSE /\ debts' = SetDebtPaid(id)
               /\ R(200)
               /\ UNCHANGED nextDebt

(***************************************************************************)
(* DELETE /transactions/:id                                                *)
(***************************************************************************)
\* DELETE FROM transactions WHERE id = ?
TransactionsWithout(id) ==
  [t \in DOMAIN transactions \ {id} |-> transactions[t]]

\* faulty variant: the second DELETE is missing
DebtsWithout_KeepsDebts(id) == debts

\* DELETE FROM debts WHERE transaction_id = ?
DebtsWithout(id) ==
  [d \in DOMAIN debts \ DebtsOfTx(id) |-> debts[d]]

\* faulty variant: the payments of the deleted debts are deleted too
PaymentsAfterDelete_Cascade(id) ==
  SelectSeq(payments, LAMBDA p : p.debt_id \notin DebtsOfTx(id))

\* the handler issues no statement on debt_payments
PaymentsAfterDelete(id) == payments

DeleteTransaction(id, role) ==
  /\ UNCHANGED <<pondVars, expenses, reqs>>
  /\ IF role # "admin" /\ role # "owner"
     THEN /\ Respond("deleteTransaction", 403, id, JsUndefined, Undefined,
                     Undefined, role, NoBody)
          /\ UNCHANGED <<transactions, debts, payments, nextTx, nextDebt>>
     ELSE /\ transactions' = TransactionsWithout(id)
          /\ debts' = DebtsWithout(id)
          /\ payments' = PaymentsAfterDelete(id)
          /\ Respond("deleteTransaction", 200, id, JsUndefined, Undefined,
                     Undefined, role, NoBody)
          /\ UNCHANGED <<nextTx, nextDebt>>

(***************************************************************************)
(* POST /ponds, PUT /ponds/:id, DELETE /ponds/:id                          *)
(***************************************************************************)
\* pond ids addressed by requests: a default pond and the first created one
PondIds == {1, Len(defaultPonds) + 1}
PondNames == {Undefined, "", "Kolam 6"}
PondTypes == {Undefined, "production"}
\* the roles the pond routes pass to authorize
PondRoles == {"admin", "owner"}

\* faulty variant: the membership test is inverted
Authorize_Inverted(allowedRoles, role) ==
  allowedRoles = {} \/ role \notin allowedRoles

\* authorize(...allowedRoles) for an authenticated caller: TRUE when the
\* request is passed on, FALSE when it is answered 403
Authorize(allowedRoles, role) ==
  allowedRoles = {} \/ role \in allowedRoles

PondsWithout(id) == [p \in DOMAIN ponds \ {id} |-> ponds[p]]

CreatePond(role, name, type) ==
  /\ UNCHANGED <<transactions, debts, payments, nextTx, nextDebt,
                 expenses, reqs>>
  /\ IF ~Authorize(PondRoles, role)
     THEN /\ Respond("createPond", 403, NULL, JsUndefined, Undefined,
                     Undefined, role, NoBody)
          /\ UNCHANGED pondVars
     ELSE IF ~TruthyStr(name) \/ ~TruthyStr(type)
     THEN /\ Respond("createPond", 400, NULL, JsUndefined, Undefined,
                     Undefined, role, NoBody)
          /\ UNCHANGED pondVars
     ELSE /\ nextPond <= MaxPond
          /\ ponds' = ponds @@ (nextPond :> [name |-> name, type |-> type])
          /\ nextPond' = nextPond + 1
          /\ Respond("createPond", 201, nextPond, JsUndefined, Undefined,
                     Undefined, role, NoBody)

UpdatePond(id, role, name, type) ==
  /\ UNCHANGED <<transactions, debts, payments, nextTx, nextDebt, nextPond,
                 expenses, reqs>>
  /\ IF ~Authorize(PondRoles, role)
     THEN /\ Respond("updatePond", 403, id, JsUndefined, Undefined,
                     Undefined, role, NoBody)
          /\ UNCHANGED ponds
     ELSE IF id \in DOMAIN ponds /\ (name = Undefined \/ type = Undefined)
     THEN \* name and type are NOT NULL
          /\ Respond("updatePond", 500, id, JsUndefined, Undefined,
                     Undefined, role, NoBody)
          /\ UNCHANGED ponds
     ELSE /\ ponds' = IF id \in DOMAIN ponds
                      THEN [ponds EXCEPT ![id] = [name |-> name, type |-> type]]
                      ELSE ponds
          /\ Respond("updatePond", 200, id, JsUndefined, Undefined,
                     Undefined, role, NoBody)

DeletePond(id, role) ==
  /\ UNCHANGED <<transactions, debts, payments, nextTx, nextDebt, nextPond,
                 expenses, reqs>>
  /\ IF ~Authorize(PondRoles, role)
     THEN /\ Respond("deletePond", 403, id, JsUndefined, Undefined,
                     Undefined, role, NoBody)
          /\ UNCHANGED ponds
     ELSE /\ ponds' = PondsWithout(id)
          /\ Respond("deletePond", 200, id, JsUndefined, Undefined,
                     Undefined, role, NoBody)

(***************************************************************************)
(* POST /expenses and GET /reports/daily                                   *)
(***************************************************************************)
ReportDates == {"2024-01-01", "2024-01-02"}
ExpenseCategories == {"feed", "labour"}
ExpenseAmounts == {JsNumber(0), JsNumber(1), JsNumber(2)}

CreateExpense(date, category, amount) ==
  /\ UNCHANGED <<transactions, debts, payments, nextTx, nextDebt, pondVars,
                 reqs>>
  /\ IF ~TruthyStr(date) \/ ~TruthyStr(category) \/ ~Truthy(amount)
     THEN /\ Respond("createExpense", 400, NULL, amount, date, Undefined,
                     "employee", NoBody)
          /\ UNCHANGED expenses
     ELSE /\ Len(expenses) < MaxExp
          /\ expenses' = Append(expenses, [date |-> date, category |-> category,
                                           amount |-> amount.v])
          /\ Respond("createExpense", 201, Len(expenses) + 1, amount, date,
                     Undefined, "employee", NoBody)

\* SELECT COALESCE(SUM(total), 0) FROM transactions WHERE date = ?; every
\* stored transaction bears the one date of Dates that passes validation
RECURSIVE SumTotals(_)
SumTotals(ids) ==
  IF ids = {} THEN 0
  ELSE LET t == CHOOSE x \in ids : TRUE
       IN transactions[t].total + SumTotals(ids \ {t})

IncomeOn(date) ==
  IF date \in Dates \ {Undefined} THEN SumTotals(DOMAIN transactions) ELSE 0

\* SELECT category, COALESCE(SUM(amount), 0) as total FROM expenses
\* WHERE date = ? GROUP BY category
RECURSIVE SumExpenses(_)
SumExpenses(rows) ==
  IF rows = <<>> THEN 0 ELSE Head(rows).amount + SumExpenses(Tail(rows))

ExpensesByCategory(date) ==
  {[category |-> c,
    total |-> SumExpenses(SelectSeq(expenses,
                LAMBDA e : e.date = date /\ e.category = c))] :
     c \in {expenses[i].category :
              i \in {j \in 1..Len(expenses) : expenses[j].date = date}}}

\* expenses.reduce((sum, e) => sum + e.total, 0)
RECURSIVE TotalExpenses(_)
TotalExpenses(groups) ==
  IF groups = {} THEN 0
  ELSE LET g == CHOOSE x \in groups : TRUE
       IN g.total + TotalExpenses(groups \ {g})

\* income[0]?.total || 0 - totalExpenses, which JavaScript reads as
\* income[0]?.total || (0 - totalExpenses)
DailyProfit(income, totalExpenses) ==
  IF income # 0 THEN income ELSE 0 - totalExpenses

DailyReport(date) ==
  /\ UNCHANGED <<transactions, debts, payments, nextTx, nextDebt, pondVars,
                 expenses, reqs>>
  /\ IF ~TruthyStr(date)
     THEN Respond("dailyReport", 400, NULL, JsUndefined, date, Undefined,
                  "employee", NoBody)
     ELSE LET income == IncomeOn(date)
              groups == ExpensesByCategory(date)
              totalExpenses == TotalExpenses(groups)
          IN Respond("dailyReport", 200, NULL, JsUndefined, date, Undefined,
                     "employee",
                     {[date |-> date, income |-> income, expenses |-> groups,
                       totalExpenses |-> totalExpenses,
                       profit |-> DailyProfit(income, totalExpenses)]})

(***************************************************************************)
(* POST /debts/:id/payments, one awaited statement per step.  The handler  *)
(* in slot r keeps its locals in reqs[r]; other handlers run between its   *)
(* statements.                                                             *)
(***************************************************************************)
Running(r, op, pc) == reqs[r].op = op /\ reqs[r].pc = pc
Goto(r, pc) == reqs' = [reqs EXCEPT ![r].pc = pc]
Finish(r) == reqs' = [reqs EXCEPT ![r] = Idle]

\* faulty variant: the status is never written
PaidUpdateOf_NeverPaid(row, amountRead, totalPaid) ==
  [row EXCEPT !.paid_amount = totalPaid]

\* the UPDATE debts of the handler on the row as it is now; the amount
\* compared with is the one of the row read by the lookup
PaidUpdateOf(row, amountRead, totalPaid) ==
  IF totalPaid >= amountRead
  THEN [row EXCEPT !.status = "paid", !.paid_amount = totalPaid]
  ELSE [row EXCEPT !.paid_amount = totalPaid]

\* validation and SELECT * FROM debts WHERE id = ?
PayLookup(r, id, payment_date, amount) ==
  /\ reqs[r] = Idle
  /\ UNCHANGED <<transactions, debts, payments, nextTx, nextDebt, pondVars,
                 expenses>>
  /\ IF ~PaymentBodyOk(payment_date, amount)
     THEN /\ Respond("recordPayment", 400, id, amount, payment_date, Undefined,
                     "employee", NoBody)
          /\ UNCHANGED reqs
     ELSE IF id \notin DOMAIN debts
     THEN /\ Respond("recordPayment", 404, id, amount, payment_date, Undefined,
                     "employee", NoBody)
          /\ UNCHANGED reqs
     ELSE /\ reqs' = [reqs EXCEPT ![r] =
                        [Idle EXCEPT !.op = "pay", !.pc = "insert", !.id = id,
                                     !.n = amount.v,
                                     !.read = debts[id].amount]]
          /\ UNCHANGED last

\* INSERT INTO debt_payments
PayInsert(r) ==
  /\ Running(r, "pay", "insert")
  /\ Len(payments) < MaxPay
  /\ payments' = PaymentsAfterInsert(reqs[r].id, reqs[r].n)
  /\ Goto(r, "sum")
  /\ UNCHANGED <<transactions, debts, nextTx, nextDebt, pondVars, expenses,
                 last>>

\* SELECT COALESCE(SUM(amount), 0) FROM debt_payments WHERE debt_id = ?
PaySum(r) ==
  /\ Running(r, "pay", "sum")
  /\ reqs' = [reqs EXCEPT ![r].pc = "update", ![r].sum = TotalPaid(reqs[r].id)]
  /\ UNCHANGED <<transactions, debts, payments, nextTx, nextDebt, pondVars,
                 expenses, last>>

\* UPDATE debts SET [status = 'paid',] paid_amount = ? WHERE id = ?
PayUpdate(r) ==
  /\ Running(r, "pay", "update")
  /\ debts' = [d \in DOMAIN debts |->
                 IF d = reqs[r].id
                 THEN PaidUpdateOf(debts[d], reqs[r].read, reqs[r].sum)
                 ELSE debts[d]]
  /\ Respond("recordPayment", 201, reqs[r].id, JsNumber(reqs[r].n),
             "2024-01-01", Undefined, "employee", NoBody)
  /\ Finish(r)
  /\ UNCHANGED <<transactions, payments, nextTx, nextDebt, pondVars, expenses>>

(***************************************************************************)
(* POST, PUT and DELETE /transactions, one awaited statement per step, and *)
(* the failure of an awaited statement.                                    *)
(***************************************************************************)
SaleIds == 1..MaxSales

\* validation and INSERT INTO transactions
CreateInsert(r, date, customer_id, weight_kg, price_per_kg, payment_status) ==
  /\ reqs[r] = Idle
  /\ UNCHANGED <<debts, payments, nextDebt, pondVars, expenses>>
  /\ IF ~TxBodyOk(date, customer_id, weight_kg, price_per_kg)
     THEN /\ Respond("createTransaction", 400, NULL, JsUndefined, Undefined,
                     payment_status, "employee", NoBody)
          /\ UNCHANGED <<transactions, nextTx, reqs>>
     ELSE LET total == Total(weight_kg, price_per_kg)
          IN /\ nextTx <= MaxSales
             /\ transactions' = transactions @@
                  (nextTx :> TxRow(customer_id, weight_kg, price_per_kg, total,
                                   StoredStatus(payment_status)))
             /\ nextTx' = nextTx + 1
             /\ IF payment_status = "unpaid"
                THEN /\ reqs' = [reqs EXCEPT ![r] =
                                   [Idle EXCEPT !.op = "create", !.pc = "debt",
                                                !.id = nextTx, !.n = total.v,
                                                !.cust = customer_id.v,
                                                !.status = payment_status]]
                     /\ UNCHANGED last
                ELSE /\ Respond("createTransaction", 201, nextTx, JsUndefined,
                                Undefined, payment_status, "employee", NoBody)
                     /\ UNCHANGED reqs

\* INSERT INTO debts of the create handler
CreateDebt(r) ==
  /\ Running(r, "create", "debt")
  /\ nextDebt <= MaxDebt
  /\ debts' = debts @@
       (nextDebt :> NewDebt(reqs[r].id, reqs[r].cust, reqs[r].n))
  /\ nextDebt' = nextDebt + 1
  /\ Respond("createTransaction", 201, reqs[r].id, JsUndefined, Undefined,
             reqs[r].status, "employee", NoBody)
  /\ Finish(r)
  /\ UNCHANGED <<transactions, payments, nextTx, pondVars, expenses>>

\* UPDATE transactions SET ... WHERE id = ?
UpdateWrite(r, id, date, customer_id, weight_kg, price_per_kg, payment_status) ==
  /\ reqs[r] = Idle
  /\ UNCHANGED <<debts, payments, nextTx, nextDebt, pondVars, expenses>>
  /\ LET total == Total(weight_kg, price_per_kg)
     IN IF UpdateTxFails(id, date, weight_kg, price_per_kg, total,
                         payment_status)
           \/ IsNull(total) \/ IsNull(customer_id)
        THEN /\ Respond("updateTransaction", 500, id, total, Undefined,
                        payment_status, "employee", NoBody)
             /\ UNCHANGED <<transactions, reqs>>
        ELSE /\ transactions' =
                  UpdatedTransactions(id, customer_id, weight_kg, price_per_kg,
                                      total, payment_status)
             /\ reqs' = [reqs EXCEPT ![r] =
                           [Idle EXCEPT !.op = "update",
                                        !.pc = IF payment_status = "unpaid"
                                               THEN "lookup" ELSE "markPaid",
                                        !.id = id, !.n = total.v,
                                        !.cust = customer_id.v,
                                        !.status = payment_status]]
             /\ UNCHANGED last

\* SELECT * FROM debts WHERE transaction_id = ?  and the test of its result
UpdateLookup(r) ==
  /\ Running(r, "update", "lookup")
  /\ Goto(r, IF DebtsOfTx(reqs[r].id) = {} THEN "insertDebt" ELSE "setAmount")
  /\ UNCHANGED <<transactions, debts, payments, nextTx, nextDebt, pondVars,
                 expenses, last>>

\* INSERT INTO debts of the update handler
UpdateInsertDebt(r) ==
  /\ Running(r, "update", "insertDebt")
  /\ nextDebt <= MaxDebt
  /\ debts' = debts @@
       (nextDebt :> NewDebt(reqs[r].id, reqs[r].cust, reqs[r].n))
  /\ nextDebt' = nextDebt + 1
  /\ Respond("updateTransaction", 200, reqs[r].id, JsNumber(reqs[r].n),
             Undefined, reqs[r].status, "employee", NoBody)
  /\ Finish(r)
  /\ UNCHANGED <<transactions, payments, nextTx, pondVars, expenses>>

\* UPDATE debts SET amount = ? WHERE transaction_id = ?
UpdateSetAmount(r) ==
  /\ Running(r, "update", "setAmount")
  /\ debts' = SetDebtAmount(reqs[r].id, reqs[r].n)
  /\ Respond("updateTransaction", 200, reqs[r].id, JsNumber(reqs[r].n),
             Undefined, reqs[r].status, "employee", NoBody)
  /\ Finish(r)
  /\ UNCHANGED <<transactions, payments, nextTx, nextDebt, pondVars, expenses>>

\* UPDATE debts SET status = 'paid' WHERE transaction_id = ?
UpdateMarkPaid(r) ==
  /\ Running(r, "update", "markPaid")
  /\ debts' = SetDebtPaid(reqs[r].id)
  /\ Respond("updateTransaction", 200, reqs[r].id, JsNumber(reqs[r].n),
             Undefined, reqs[r].status, "employee", NoBody)
  /\ Finish(r)
  /\ UNCHANGED <<transactions, payments, nextTx, nextDebt, pondVars, expenses>>

\* the role test and DELETE FROM transactions WHERE id = ?
DeleteRow(r, id, role) ==
  /\ reqs[r] = Idle
  /\ UNCHANGED <<debts, payments, nextTx, nextDebt, pondVars, expenses>>
  /\ IF role # "admin" /\ role # "owner"
     THEN /\ Respond("deleteTransaction", 403, id, JsUndefined, Undefined,
                     Undefined, role, NoBody)
          /\ UNCHANGED <<transactions, reqs>>
     ELSE /\ transactions' = TransactionsWithout(id)
          /\ reqs' = [reqs EXCEPT ![r] =
                        [Idle EXCEPT !.op = "delete", !.pc = "debts",
                                     !.id = id]]
          /\ UNCHANGED last

\* DELETE FROM debts WHERE transaction_id = ?
DeleteDebts(r) ==
  /\ Running(r, "delete", "debts")
  /\ debts' = DebtsWithout(reqs[r].id)
  /\ payments' = PaymentsAfterDelete(reqs[r].id)
  /\ Respond("deleteTransaction", 200, reqs[r].id, JsUndefined, Undefined,
             Undefined, "admin", NoBody)
  /\ Finish(r)
  /\ UNCHANGED <<transactions, nextTx, nextDebt, pondVars, expenses>>

\* the route a running handler belongs to
OpName(op) ==
  CASE op = "pay" -> "recordPayment"
    [] op = "create" -> "createTransaction"
    [] op = "update" -> "updateTransaction"
    [] op = "delete" -> "deleteTransaction"

\* faulty variant: the payment row of the failed request is taken back
PaymentsAfterFailure_RolledBack(r) ==
  IF reqs[r].op = "pay" /\ reqs[r].pc \in {"sum", "update"} /\ payments # <<>>
  THEN SubSeq(payments, 1, Len(payments) - 1)
  ELSE payments

\* the catch block logs and answers; there is no transaction to roll back
PaymentsAfterFailure(r) == payments

\* the statement a running handler awaits is rejected by the storage layer:
\* the catch block answers 500 and what the handler wrote before stays
Fail(r) ==
  /\ reqs[r] # Idle
  /\ payments' = PaymentsAfterFailure(r)
  /\ Respond(OpName(reqs[r].op), 500, reqs[r].id, JsUndefined, Undefined,
             Undefined, "employee", NoBody)
  /\ Finish(r)
  /\ UNCHANGED <<transactions, debts, nextTx, nextDebt, pondVars, expenses>>

(***************************************************************************)
(* Spec: the receivables and transactions routers.                         *)
(***************************************************************************)
Next ==
  \/ \E id \in DebtIds, b \in PaymentBodies : RecordPayment(id, b[1], b[2])
  \/ \E s \in PaymentStatuses, c \in CustomerQueries : ListDebts(s, c)
  \/ \E id \in DebtIds : GetDebt(id)
  \/ \E id \in DebtIds : ListPayments(id)
  \/ \E b \in TxBodies, s \in PaymentStatuses :
       CreateTransaction(b[1], b[2], b[3], b[4], s)
  \/ \E id \in TxIds, b \in TxBodies, s \in PaymentStatuses :
       UpdateTransaction(id, b[1], b[2], b[3], b[4], s)
  \/ \E id \in TxIds, r \in Roles : DeleteTransaction(id, r)

Spec == Init /\ [][Next]_vars

(***************************************************************************)
(* SpecElevated: the operations that ask for an elevated role, with the    *)
(* requests that fill the tables they must leave alone.                    *)
(***************************************************************************)
NextElevated ==
  \/ \E r \in Roles, n \in PondNames, t \in PondTypes : CreatePond(r, n, t)
  \/ \E id \in PondIds, r \in Roles, n \in PondNames, t \in PondTypes :
       UpdatePond(id, r, n, t)
  \/ \E id \in PondIds, r \in Roles : DeletePond(id, r)
  \/ \E id \in TxIds, r \in Roles : DeleteTransaction(id, r)
  \/ \E b \in ValidTxBody, s \in {"paid", "unpaid"} :
       CreateTransaction(b[1], b[2], b[3], b[4], s)
  \/ \E id \in DebtIds :
       RecordPayment(id, "2024-01-01", JsNumber(1))

SpecElevated == Init /\ [][NextElevated]_vars

(***************************************************************************)
(* SpecReport: the daily report over sales and expenses.                   *)
(***************************************************************************)
NextReport ==
  \/ \E b \in ValidTxBody, s \in {"paid", "unpaid"} :
       CreateTransaction(b[1], b[2], b[3], b[4], s)
  \/ \E d \in ReportDates \cup {Undefined}, c \in ExpenseCategories,
        a \in ExpenseAmounts : CreateExpense(d, c, a)
  \/ \E d \in ReportDates \cup {Undefined} : DailyReport(d)

SpecReport == Init /\ [][NextReport]_vars

(***************************************************************************)
(* SpecPayments: record-payment handlers running at the same time on the   *)
(* debts of sales created beforehand.                                      *)
(***************************************************************************)
RacingAmounts == {JsNumber(1), JsNumber(0 - 1), JsNumber(0)}

NextPayments ==
  \/ \E b \in ValidTxBody : CreateTransaction(b[1], b[2], b[3], b[4], "unpaid")
  \/ \E r \in Slots, id \in DebtIds, a \in RacingAmounts :
       PayLookup(r, id, "2024-01-01", a)
  \/ \E r \in Slots : PayInsert(r)
  \/ \E r \in Slots : PaySum(r)
  \/ \E r \in Slots : PayUpdate(r)

SpecPayments == Init /\ [][NextPayments]_vars

(***************************************************************************)
(* SpecStatements: the transaction handlers run statement by statement,    *)
(* MaxReq of them at the same time.                                        *)
(***************************************************************************)
SaleBody == <<"2024-01-01", JsNumber(7), JsNumber(1), JsNumber(3)>>

NextStatements ==
  \/ \E r \in Slots, s \in {"paid", "unpaid"} :
       CreateInsert(r, SaleBody[1], SaleBody[2], SaleBody[3], SaleBody[4], s)
  \/ \E r \in Slots : CreateDebt(r)
  \/ \E r \in Slots, id \in SaleIds, s \in {"paid", "unpaid"} :
       UpdateWrite(r, id, SaleBody[1], SaleBody[2], SaleBody[3], SaleBody[4], s)
  \/ \E r \in Slots : UpdateLookup(r)
  \/ \E r \in Slots : UpdateInsertDebt(r)
  \/ \E r \in Slots : UpdateSetAmount(r)
  \/ \E r \in Slots : UpdateMarkPaid(r)
  \/ \E r \in Slots, id \in SaleIds : DeleteRow(r, id, "admin")
  \/ \E r \in Slots : DeleteDebts(r)

SpecStatements == Init /\ [][NextStatements]_vars

(***************************************************************************)
(* SpecFailures: one handler at a time, run statement by statement, any    *)
(* awaited statement possibly failing.                                     *)
(***************************************************************************)
OneSlot == {1}

NextFailures ==
  \/ \E r \in OneSlot, s \in {"paid", "unpaid"} :
       CreateInsert(r, SaleBody[1], SaleBody[2], SaleBody[3], SaleBody[4], s)
  \/ \E r \in OneSlot : CreateDebt(r)
  \/ \E r \in OneSlot, id \in SaleIds : DeleteRow(r, id, "admin")
  \/ \E r \in OneSlot : DeleteDebts(r)
  \/ \E r \in OneSlot, id \in DebtIds :
       PayLookup(r, id, "2024-01-01", JsNumber(1))
  \/ \E r \in OneSlot : PayInsert(r)
  \/ \E r \in OneSlot : PaySum(r)
  \/ \E r \in OneSlot : PayUpdate(r)
  \/ \E r \in OneSlot : Fail(r)

SpecFailures == Init /\ [][NextFailures]_vars

(***************************************************************************)
(* SpecValidation: create transaction over the wide request bodies.        *)
(***************************************************************************)
NextValidation ==
  \/ \E b \in WideTxBodies, s \in PaymentStatuses :
       CreateTransaction(b[1], b[2], b[3], b[4], s)
  \/ \E id \in TxIds, r \in Roles : DeleteTransaction(id, r)

SpecValidation == Init /\ [][NextValidation]_vars

(***************************************************************************)
(* Properties.  last is the request most recently answered; in an action   *)
(* formula the unprimed tables are the tables before that request.         *)
(***************************************************************************)
\* the sum of the amounts of the payment rows referencing debt id, counted
\* row by row over the whole debt_payments table
RECURSIVE SumUpTo(_, _, _)
SumUpTo(rows, id, n) ==
  IF n = 0 THEN 0
  ELSE SumUpTo(rows, id, n - 1)
         + (IF rows[n].debt_id = id THEN rows[n].amount ELSE 0)

PaymentSum(rows, id) == SumUpTo(rows, id, Len(rows))

Recorded == last.op = "recordPayment" /\ last.code = 201

\* C1: a successful record-payment call with amount a on a debt with amount
\* m whose payments so far sum to p leaves the stored paid_amount at p + a;
\* the stored status becomes 'paid' if p + a >= m and is otherwise what it
\* was before the call.
C1_RecordPaymentEffect ==
  [][(last'.op = "recordPayment" /\ last'.code = 201) =>
       LET id == last'.id
           p == PaymentSum(payments, id)
           a == last'.amount.v
           m == debts[id].amount
       IN /\ id \in DOMAIN debts /\ id \in DOMAIN debts'
          /\ debts'[id].paid_amount = p + a
          /\ debts'[id].amount = m
          /\ IF p + a >= m THEN debts'[id].status = "paid"
             ELSE debts'[id].status = debts[id].status]_vars

\* a second payment has just completed a debt: p = 1, a = 1, m = 2
C1_Witness ==
  /\ Recorded
  /\ last.id \in DOMAIN debts
  /\ Len(PaymentsOf(last.id)) = 2
  /\ PaymentsOf(last.id)[1].amount = 1
  /\ last.amount.v = 1
  /\ debts[last.id].amount = 2
  /\ debts[last.id].status = "paid"
  /\ debts[last.id].paid_amount = 2

\* C2: every debt returned by list receivables has remaining_amount = stored
\* amount - sum of its payment rows, paid_amount = that sum, and response
\* status 'paid' iff remaining_amount <= 0, whatever the stored status.
C2_ListComputedFields ==
  last.op = "listDebts" =>
    \A r \in last.body :
      /\ r.id \in DOMAIN debts
      /\ r.paid_amount = PaymentSum(payments, r.id)
      /\ r.remaining_amount = debts[r.id].amount - PaymentSum(payments, r.id)
      /\ (r.status = "paid") <=> (r.remaining_amount <= 0)
      /\ r.status \in {"paid", "unpaid"}

\* the list shows a partly paid debt as 'unpaid' whose stored status is 'paid'
C2_Witness ==
  /\ last.op = "listDebts"
  /\ \E r \in last.body :
       /\ r.paid_amount = 1 /\ r.remaining_amount = 1
       /\ r.status = "unpaid" /\ debts[r.id].status = "paid"

\* C3: a create-transaction call with payment_status = 'unpaid' that creates
\* the transaction adds exactly one debt row: it references the new
\* transaction and its customer, has amount = the transaction's total,
\* status 'unpaid', paid_amount 0 and no payments; no other debt row changes.
C3_UnpaidCreatesOneDebt ==
  [][(/\ last'.op = "createTransaction" /\ last'.code = 201
      /\ last'.status = "unpaid") =>
       \E d \in DOMAIN debts' \ DOMAIN debts :
         /\ DOMAIN debts' = DOMAIN debts \cup {d}
         /\ Cardinality(DOMAIN debts') = Cardinality(DOMAIN debts) + 1
         /\ \A e \in DOMAIN debts : debts'[e] = debts[e]
         /\ last'.id \in DOMAIN transactions' \ DOMAIN transactions
         /\ debts'[d].transaction_id = last'.id
         /\ debts'[d].customer_id = transactions'[last'.id].customer_id
         /\ debts'[d].customer_id \in CustomerIds
         /\ debts'[d].amount = transactions'[last'.id].total
         /\ debts'[d].status = "unpaid"
         /\ debts'[d].paid_amount = 0
         /\ PaymentSum(payments', d) = 0
         /\ \A i \in 1..Len(payments') : payments'[i].debt_id # d]_vars

\* an unpaid sale was created while another debt row already existed
C3_Witness ==
  /\ last.op = "createTransaction" /\ last.code = 201
  /\ last.status = "unpaid"
  /\ Cardinality(DOMAIN debts) = 2
  /\ \E d \in DOMAIN debts :
       debts[d].transaction_id = last.id /\ debts[d].amount = 2

\* total is the integer nearest to n / WeightScale, halves rounded up
IsRounded(total, n) ==
  /\ 2 * WeightScale * total - WeightScale <= 2 * n
  /\ 2 * n < 2 * WeightScale * total + WeightScale

\* C4: every stored transaction row has total = round(weight_kg *
\* price_per_kg) of its own stored weight and price; weight 10 and price
\* 1500 give 15000.
C4_TotalIsRoundedProduct ==
  /\ \A t \in DOMAIN transactions :
       IsRounded(transactions[t].total,
                 transactions[t].weight_kg * transactions[t].price_per_kg)
  /\ Total(JsNumber(10 * WeightScale), JsNumber(1500)) = JsNumber(15000)

\* an update has replaced weight and price by values with another total
C4_Witness ==
  /\ last.op = "updateTransaction" /\ last.code = 200
  /\ last.id \in DOMAIN transactions
  /\ transactions[last.id].weight_kg = 0
  /\ transactions[last.id].total = 0
  /\ \E d \in DOMAIN debts : debts[d].transaction_id = last.id

\* C5: delete transaction by an admin or owner removes the transaction row
\* and every debt row referencing it and leaves every payment row unchanged,
\* those of the deleted debts included.
C5_DeleteKeepsPayments ==
  [][(/\ last'.op = "deleteTransaction"
      /\ last'.role \in {"admin", "owner"}) =>
       /\ last'.code = 200
       /\ last'.id \notin DOMAIN transactions'
       /\ \A t \in DOMAIN transactions \ {last'.id} :
            t \in DOMAIN transactions' /\ transactions'[t] = transactions[t]
       /\ DOMAIN debts' =
            {d \in DOMAIN debts : debts[d].transaction_id # last'.id}
       /\ \A d \in DOMAIN debts' : debts'[d] = debts[d]
       /\ payments' = payments]_vars

\* a transaction was deleted and a payment of its debt is left orphaned
C5_Witness ==
  /\ last.op = "deleteTransaction" /\ last.code = 200
  /\ last.id \notin DOMAIN transactions
  /\ nextTx > last.id
  /\ \E i \in 1..Len(payments) : payments[i].debt_id \notin DOMAIN debts

\* C6: a debt row whose stored status is 'paid' keeps that status for as
\* long as the row exists.
C6_PaidStaysPaid ==
  [][\A d \in DOMAIN debts \cap DOMAIN debts' :
       debts[d].status = "paid" => debts'[d].status = "paid"]_vars

\* a payment was recorded on a 'paid' debt whose payments are below its amount
C6_Witness ==
  /\ Recorded
  /\ last.id \in DOMAIN debts
  /\ debts[last.id].status = "paid"
  /\ PaymentSum(payments, last.id) < debts[last.id].amount

\* C7, as stated: the sum of the amounts of a debt's payment rows never
\* decreases from one state to the next.
C7_TotalPaidNeverDecreases ==
  [][\A d \in DebtIds :
       PaymentSum(payments', d) >= PaymentSum(payments, d)]_vars

\* C7, amended: the sum of a debt's payment rows decreases only when a
\* payment with a negative amount is recorded on that debt; every other
\* request leaves it as it was or raises it.
C7_TotalPaidDecreasesOnlyByNegativePayment ==
  [][\A d \in DebtIds :
       PaymentSum(payments', d) < PaymentSum(payments, d) =>
         /\ last'.op = "recordPayment" /\ last'.code = 201
         /\ last'.id = d /\ last'.amount.v < 0
         /\ PaymentSum(payments', d)
              = PaymentSum(payments, d) + last'.amount.v]_vars

\* a negative payment has brought the total paid back from 1 to 0
C7_Witness ==
  /\ Recorded
  /\ last.amount.v < 0
  /\ Len(PaymentsOf(last.id)) = 2
  /\ PaymentsOf(last.id)[1].amount = 1
  /\ PaymentSum(payments, last.id) = 0

\* C8, as stated: record payment on an existing debt with a payment_date
\* and a present amount that is zero or negative succeeds and inserts a
\* payment row with exactly that amount.
C8_ZeroOrNegativeAccepted ==
  (/\ last.op = "recordPayment"
   /\ last.id \in DOMAIN debts
   /\ TruthyStr(last.date)
   /\ last.amount.t # "undefined"
   /\ last.amount.v <= 0) =>
    /\ last.code = 201
    /\ payments # <<>>
    /\ payments[Len(payments)] =
         [debt_id |-> last.id, amount |-> last.amount.v]

\* C8, amended: with an existing debt and a payment_date, a negative amount,
\* and a zero sent as the string "0", succeed and insert a payment row with
\* exactly that amount; the number 0 is taken for a missing amount: the call
\* answers 400 and inserts nothing.
C8_NegativeAcceptedNumberZeroRejected ==
  [][(/\ last'.op = "recordPayment"
      /\ last'.id \in DOMAIN debts
      /\ TruthyStr(last'.date)
      /\ last'.amount.t # "undefined"
      /\ last'.amount.v <= 0) =>
       IF last'.amount = JsNumber(0)
       THEN /\ last'.code = 400
            /\ payments' = payments
            /\ debts' = debts
       ELSE /\ last'.code = 201
            /\ payments' = Append(payments, [debt_id |-> last'.id,
                                             amount |-> last'.amount.v])]_vars

\* a payment of -1 was accepted on a debt that had no payment yet
C8_Witness ==
  /\ Recorded
  /\ last.amount = JsNumber(0 - 1)
  /\ payments[Len(payments)] = [debt_id |-> last.id, amount |-> 0 - 1]
  /\ debts[last.id].paid_amount = 0 - 1

\* C9, as stated: right after a record-payment call, and right after an
\* update-transaction call that sets payment_status, the affected debt's
\* stored status is 'paid' iff the sum of its payments is >= its amount.
C9_StatusMatchesPaymentsAtWrite ==
  /\ Recorded =>
       (debts[last.id].status = "paid"
          <=> PaymentSum(payments, last.id) >= debts[last.id].amount)
  /\ (/\ last.op = "updateTransaction" /\ last.code = 200
      /\ last.status # Undefined) =>
       \A d \in DebtsOfTx(last.id) :
         debts[d].status = "paid"
           <=> PaymentSum(payments, d) >= debts[d].amount

\* C9, amended: right after a record-payment call the debt's stored status
\* is 'paid' if the sum of its payments is >= its amount (not only if: a
\* 'paid' status stays); right after an update-transaction call with a
\* payment_status other than 'unpaid' every debt of the transaction is
\* 'paid' whatever its payments; an update with 'unpaid' leaves the status
\* of every existing debt as it was.
C9_StatusAtWrite ==
  [][/\ (last'.op = "recordPayment" /\ last'.code = 201) =>
          (PaymentSum(payments', last'.id) >= debts'[last'.id].amount
             => debts'[last'.id].status = "paid")
     /\ (/\ last'.op = "updateTransaction" /\ last'.code = 200
         /\ last'.status # "unpaid") =>
          \A d \in DOMAIN debts' :
            debts'[d].status =
              IF debts'[d].transaction_id = last'.id THEN "paid"
              ELSE debts[d].status
     /\ (/\ last'.op = "updateTransaction" /\ last'.status = "unpaid") =>
          \A d \in DOMAIN debts :
            d \in DOMAIN debts' /\ debts'[d].status = debts[d].status]_vars

\* an update to 'paid' has left a debt 'paid' that has a payment of 1
\* against an amount of 2
C9_Witness ==
  /\ last.op = "updateTransaction" /\ last.code = 200
  /\ last.status = "paid"
  /\ \E d \in DebtsOfTx(last.id) :
       /\ debts[d].status = "paid"
       /\ debts[d].amount = 2
       /\ PaymentSum(payments, d) = 1

\* C10, as stated: record payment on a debt id that does not exist answers
\* 404.
C10_MissingDebtIs404 ==
  (last.op = "recordPayment" /\ last.id \notin DOMAIN debts) =>
    last.code = 404

\* C10, amended: record payment on a debt id that does not exist changes
\* nothing and fails: with 404 when payment_date and amount are both present
\* and truthy, with 400 otherwise (the body is validated before the debt is
\* looked up).
C10_MissingDebtFailsUnchanged ==
  [][(last'.op = "recordPayment" /\ last'.id \notin DOMAIN debts) =>
       /\ last'.code =
            IF TruthyStr(last'.date) /\ Truthy(last'.amount) THEN 404
            ELSE 400
       /\ payments' = payments
       /\ debts' = debts
       /\ transactions' = transactions]_vars

\* a payment was refused with 404 for a debt that was deleted and still has
\* payment rows
C10_Witness ==
  /\ last.op = "recordPayment" /\ last.code = 404
  /\ last.id \notin DOMAIN debts
  /\ PaymentsOf(last.id) # <<>>

\* C11: no operation deletes a payment row or changes the debt_id or amount
\* of an existing one; the payment rows only grow.
C11_PaymentsAppendOnly ==
  [][/\ Len(payments') >= Len(payments)
     /\ \A i \in 1..Len(payments) : payments'[i] = payments[i]]_vars

\* a delete has removed the last debt and both payment rows are still there
C11_Witness ==
  /\ last.op = "deleteTransaction" /\ last.code = 200
  /\ DOMAIN debts = {}
  /\ Len(payments) = 2

\* C12: after any sequence of completed requests every debt row's stored
\* paid_amount equals the sum of the amounts of the payment rows referencing
\* it (0 when it has none).
C12_PaidAmountIsRunningTotal ==
  \A d \in DOMAIN debts : debts[d].paid_amount = PaymentSum(payments, d)

\* a debt with two payments, 1 and -1 in either order or 0 and 0, that is
\* still 'unpaid' with paid_amount 0
C12_Witness ==
  \E d \in DOMAIN debts :
    /\ Len(PaymentsOf(d)) = 2
    /\ debts[d].paid_amount = 0
    /\ debts[d].status = "unpaid"
    /\ debts[d].amount = 2

\* C13: a completed update transaction with payment_status 'unpaid' creates
\* exactly one debt (amount = the new total, status 'unpaid', paid_amount 0,
\* the given customer) when no debt references the transaction id; otherwise
\* it overwrites the amount of the referencing debts with the new total,
\* leaves their paid_amount and status unchanged and adds no debt row.  No
\* other debt changes in either case.
C13_UpdateUnpaidSyncsDebt ==
  [][(/\ last'.op = "updateTransaction"
      /\ last'.code = 200
      /\ last'.status = "unpaid")
     => LET id == last'.id
            total == last'.amount.v
        IN IF DebtsOfTx(id) = {}
           THEN \E d \in DebtIds \ DOMAIN debts :
                  /\ DOMAIN debts' = DOMAIN debts \cup {d}
                  /\ debts'[d].transaction_id = id
                  /\ debts'[d].customer_id \in CustomerIds
                  /\ debts'[d].amount = total
                  /\ debts'[d].paid_amount = 0
                  /\ debts'[d].status = "unpaid"
                  /\ \A e \in DOMAIN debts : debts'[e] = debts[e]
           ELSE /\ DOMAIN debts' = DOMAIN debts
                /\ \A d \in DOMAIN debts :
                     IF d \in DebtsOfTx(id)
                     THEN debts'[d] = [debts[d] EXCEPT !.amount = total]
                     ELSE debts'[d] = debts[d]]_vars

\* an update has overwritten the amount of a debt that was already settled
\* by a payment: the row keeps status 'paid' and its paid_amount
C13_Witness ==
  /\ last.op = "updateTransaction" /\ last.code = 200
  /\ last.status = "unpaid"
  /\ \E d \in DOMAIN debts :
       /\ debts[d].transaction_id = last.id
       /\ debts[d].amount = last.amount.v
       /\ debts[d].status = "paid"
       /\ debts[d].paid_amount = 1
       /\ debts[d].amount > debts[d].paid_amount

C15_MissingDebtListsNothing ==
  [][(last'.op = "listPayments" /\ last'.id \notin DOMAIN debts)
     => /\ last'.code = 200
        /\ last'.body = {}
        /\ UNCHANGED <<transactions, debts, payments>>]_vars

\* C15: listing payments never fails for want of a debt row and changes no
\* state; it answers 200 with exactly the payment rows whose debt_id is the
\* id, so the result is empty when no payment row references the id and holds
\* the orphaned rows when the debt was deleted after payments were recorded.
C15_ListPaymentsReturnsReferencingRows ==
  [][last'.op = "listPayments"
     => /\ last'.code = 200
        /\ last'.body =
             {[id |-> i, debt_id |-> last'.id, amount |-> payments[i].amount] :
                i \in {j \in 1..Len(payments) : payments[j].debt_id = last'.id}}
        /\ (PaymentsOf(last'.id) = <<>> => last'.body = {})
        /\ UNCHANGED <<transactions, debts, payments>>]_vars

\* the payments of a deleted debt are listed
C15_Witness ==
  /\ last.op = "listPayments" /\ last.code = 200
  /\ last.id \notin DOMAIN debts
  /\ last.body # {}

ReadOps == {"listDebts", "getDebt", "listPayments"}

\* C16: a get single receivable that directly follows one for the same id
\* returns the same response (so the same paid_amount and remaining_amount),
\* and list receivables, get single receivable and list payments modify no
\* debt, payment or transaction row.
C16_ReadsAreIdempotent ==
  [][/\ last'.op \in ReadOps
          => UNCHANGED <<transactions, debts, payments, nextTx, nextDebt>>
     /\ (last.op = "getDebt" /\ last'.op = "getDebt" /\ last'.id = last.id)
          => last'.code = last.code /\ last'.body = last.body]_vars

\* a debt whose stored status differs from the recomputed one has been
\* fetched and is still as it was
C16_Witness ==
  /\ last.op = "getDebt" /\ last.code = 200
  /\ \E r \in last.body :
       /\ r.payments # {}
       /\ r.status = "unpaid"
       /\ r.remaining_amount <= 0
       /\ debts[last.id].status = "unpaid"

\* C17: get single receivable answers 404 when no debt has the id; otherwise
\* it returns the stored row with paid_amount = the sum of the debt's
\* payments, remaining_amount = amount - that sum and the stored status,
\* which need not be the status list receivables computes for the same row.
C17_GetDebtComputedFields ==
  last.op = "getDebt"
    => IF last.id \notin DOMAIN debts
       THEN last.code = 404 /\ last.body = NoBody
       ELSE /\ last.code = 200
            /\ \E r \in last.body :
                 /\ last.body = {r}
                 /\ r.id = last.id
                 /\ r.amount = debts[last.id].amount
                 /\ r.paid_amount = PaymentSum(payments, last.id)
                 /\ r.remaining_amount =
                      debts[last.id].amount - PaymentSum(payments, last.id)
                 /\ r.status = debts[last.id].status

\* the fetched debt is stored 'paid' with a positive remainder, for which
\* list receivables reports 'unpaid'
C17_Witness ==
  /\ last.op = "getDebt" /\ last.code = 200
  /\ \E r \in last.body :
       /\ r.status = "paid"
       /\ r.remaining_amount > 0
       /\ DebtWithRemaining(last.id, debts[last.id], TotalPaid(last.id)).status
            = "unpaid"

ElevatedOps == {"deleteTransaction", "createPond", "updatePond", "deletePond"}

\* C18: delete transaction and create, update and delete pond, requested by
\* an authenticated caller whose role is neither 'admin' nor 'owner', answer
\* 403 and leave the transactions, debts, payments and ponds rows unchanged;
\* requested by an 'admin' or an 'owner' they are not answered 403.
C18_ElevatedOpsNeedRole ==
  [][last'.op \in ElevatedOps
     => IF last'.role \notin {"admin", "owner"}
        THEN /\ last'.code = 403
             /\ UNCHANGED <<transactions, debts, payments, ponds>>
        ELSE last'.code \notin {401, 403}]_vars

\* an employee's pond update has been refused while every table holds rows
C18_Witness ==
  /\ last.op = "updatePond" /\ last.code = 403
  /\ last.role = "employee"
  /\ DOMAIN transactions # {}
  /\ DOMAIN debts # {}
  /\ payments # <<>>
  /\ Len(defaultPonds) + 1 \in DOMAIN ponds

\* C19 as stated: create transaction answers 400 and inserts nothing when
\* date, customer, weight or price is absent, and is not rejected by
\* validation when all four are present, whatever weight and price are.
C19_PresentFieldsPassValidation ==
  [][last'.op = "createTransaction"
     => \A b \in last'.body :
          IF \/ b[1] = Undefined \/ IsNull(b[2])
             \/ IsNull(b[3]) \/ IsNull(b[4])
          THEN /\ last'.code = 400
               /\ UNCHANGED <<transactions, debts, payments>>
          ELSE /\ b[1] # "" /\ b[2].v # 0 => last'.code # 400]_vars

\* C19: create transaction answers 400 and inserts no transaction and no
\* debt row when date, customer, weight or price is absent or otherwise
\* falsy: the empty string and the number 0 are rejected like an absent
\* field.  When the four are truthy the call passes validation and inserts
\* the transaction, whatever weight and price are: a negative number and the
\* string "0" are accepted, since no positivity check is made.
C19_FalsyFieldsFailValidation ==
  [][last'.op = "createTransaction"
     => \A b \in last'.body :
          IF \/ ~TruthyStr(b[1]) \/ ~Truthy(b[2])
             \/ ~Truthy(b[3]) \/ ~Truthy(b[4])
          THEN /\ last'.code = 400
               /\ UNCHANGED <<transactions, debts, payments>>
          ELSE /\ last'.code = 201
               /\ DOMAIN transactions' = DOMAIN transactions \cup {last'.id}
               /\ last'.id \notin DOMAIN transactions
               /\ transactions'[last'.id].weight_kg = b[3].v
               /\ transactions'[last'.id].price_per_kg = b[4].v]_vars

\* a sale of negative weight at price "0" has been accepted
C19_Witness ==
  /\ last.op = "createTransaction" /\ last.code = 201
  /\ \E b \in last.body : b[3] = JsNumber(0 - 1) /\ b[4] = JsString(0)
  /\ last.id \in DOMAIN transactions
  /\ transactions[last.id].weight_kg < 0
  /\ transactions[last.id].total = 0

\* C20: every successful record-payment call inserts exactly one new payment
\* row for its debt and raises the total paid by its amount, whether or not
\* an equal row is already there; a call repeated with amount a therefore
\* leaves two rows and a total raised by 2a.
C20_EveryCallInsertsARow ==
  [][(last'.op = "recordPayment" /\ last'.code = 201)
     => /\ Len(payments') = Len(payments) + 1
        /\ SubSeq(payments', 1, Len(payments)) = payments
        /\ payments'[Len(payments')] =
             [debt_id |-> last'.id, amount |-> last'.amount.v]
        /\ PaymentSum(payments', last'.id) =
             PaymentSum(payments, last'.id) + last'.amount.v]_vars

\* the same payment of -1 has been recorded twice: two equal rows, total -2
C20_Witness ==
  /\ Recorded
  /\ last.amount = JsNumber(0 - 1)
  /\ Len(payments) = 2
  /\ payments[1] = payments[2]
  /\ payments[2] = [debt_id |-> last.id, amount |-> 0 - 1]
  /\ last.id \in DOMAIN debts
  /\ debts[last.id].paid_amount = 0 - 2

\* C22: a completed create transaction whose payment_status is absent or is
\* a value other than 'unpaid' inserts exactly one transaction row, stored
\* with payment_status 'paid' when it was absent and with the given value
\* otherwise, and leaves the debts and payments tables unchanged.
C22_PaidCreateInsertsOnlyTransaction ==
  [][(/\ last'.op = "createTransaction"
      /\ last'.code = 201
      /\ last'.status # "unpaid")
     => /\ last'.id \notin DOMAIN transactions
        /\ DOMAIN transactions' = DOMAIN transactions \cup {last'.id}
        /\ \A t \in DOMAIN transactions : transactions'[t] = transactions[t]
        /\ transactions'[last'.id].payment_status =
             (IF last'.status = Undefined THEN "paid" ELSE last'.status)
        /\ debts' = debts
        /\ payments' = payments]_vars

\* a sale without payment_status has been stored as 'paid' beside a debt
\* and a payment that were there before
C22_Witness ==
  /\ last.op = "createTransaction" /\ last.code = 201
  /\ last.status = Undefined
  /\ transactions[last.id].payment_status = "paid"
  /\ DOMAIN debts # {}
  /\ payments # <<>>

\* C25 as stated: every debt row references a transaction row that exists.
C25_DebtsReferenceTransactions ==
  \A d \in DOMAIN debts : debts[d].transaction_id \in DOMAIN transactions

\* C26 as stated: every debt whose transaction exists with payment_status
\* 'unpaid' has amount equal to that transaction's stored total.
C26_DebtAmountTracksTotal ==
  \A d \in DOMAIN debts :
    (/\ debts[d].transaction_id \in DOMAIN transactions
     /\ transactions[debts[d].transaction_id].payment_status = "unpaid")
      => debts[d].amount = transactions[debts[d].transaction_id].total

\* C27 as stated: list receivables with status filter s, 'paid' or 'unpaid',
\* returns only debts whose status in the response is s, and returns every
\* debt (of the customer asked for, if any) whose response status would be s.
C27_StatusFilterMatchesResponse ==
  (last.op = "listDebts" /\ last.status \in {"paid", "unpaid"})
    => /\ \A r \in last.body : r.status = last.status
       /\ \A d \in DOMAIN debts :
            (/\ Truthy(last.amount) => debts[d].customer_id = last.amount.v
             /\ DebtWithRemaining(d, debts[d], TotalPaid(d)).status
                  = last.status)
              => \E r \in last.body : r.id = d

\* C28 as stated: the profit the daily report returns equals the income it
\* returns minus the totalExpenses it returns.
C28_DailyProfitIsIncomeMinusExpenses ==
  (last.op = "dailyReport" /\ last.code = 200)
    => \A r \in last.body : r.profit = r.income - r.totalExpenses

\* no handler is between two of its statements
AllCompleted == \A r \in Slots : reqs[r] = Idle

\* C23 as stated: once the concurrent record-payment requests have all
\* completed, every debt's stored paid_amount equals the sum of all its
\* payment rows and its stored status is 'paid' whenever that sum is >= its
\* amount.
C23_NoLostUpdate ==
  AllCompleted
    => \A d \in DOMAIN debts :
         /\ debts[d].paid_amount = PaymentSum(payments, d)
         /\ PaymentSum(payments, d) >= debts[d].amount
              => debts[d].status = "paid"

\* C23: once the concurrent record-payment requests have all completed, a
\* debt's stored status is 'paid' whenever the sum of all its payment rows
\* is >= its amount, but its stored paid_amount is only the sum one of the
\* requests read: the sum of the debt's rows among the first k payment rows,
\* for some k that reaches the debt's first row.  It is the sum of all the
\* rows only if the request that summed last also updated last.
C23_StatusKeptPaidAmountMayLag ==
  AllCompleted
    => \A d \in DOMAIN debts :
         /\ PaymentSum(payments, d) >= debts[d].amount
              => debts[d].status = "paid"
         /\ \E k \in 0..Len(payments) :
              /\ debts[d].paid_amount = SumUpTo(payments, d, k)
              /\ PaymentsOf(d) # <<>>
                   => \E i \in 1..k : payments[i].debt_id = d

\* two payments of 1 have settled a debt of 2 and both requests are done,
\* yet the stored paid_amount is 1: the later update wrote the earlier sum
C23_Witness ==
  /\ AllCompleted
  /\ \E d \in DOMAIN debts :
       /\ debts[d].amount = 2
       /\ Len(PaymentsOf(d)) = 2
       /\ PaymentSum(payments, d) = 2
       /\ debts[d].status = "paid"
       /\ debts[d].paid_amount = 1

\* C24 as stated: no two debt rows have the same transaction_id.
C24_OneDebtPerTransaction ==
  \A d1, d2 \in DOMAIN debts :
    d1 # d2 => debts[d1].transaction_id # debts[d2].transaction_id

\* C21: when a statement of a request fails after earlier statements of the
\* same request have written, the request answers 500 and nothing is taken
\* back: the tables stay as the earlier statements left them, with the
\* payment row inserted, the transaction row inserted or the transaction row
\* deleted.  (The states this leaves behind are those of C21_Witness.)
C21_FailureKeepsEarlierWrites ==
  [][\A r \in Slots :
       (reqs[r] # Idle /\ reqs'[r] = Idle /\ last'.code = 500)
         => /\ last'.op = OpName(reqs[r].op)
            /\ UNCHANGED <<transactions, debts, payments>>
            /\ (reqs[r].op = "pay" /\ reqs[r].pc \in {"sum", "update"})
                 => \E i \in 1..Len(payments') :
                      payments'[i] = [debt_id |-> reqs[r].id,
                                      amount |-> reqs[r].n]
            /\ reqs[r].op = "create" => reqs[r].id \in DOMAIN transactions'
            /\ reqs[r].op = "delete" => reqs[r].id \notin DOMAIN transactions'
    ]_vars

\* after three failed requests: a payment row its debt's paid_amount does not
\* count, an 'unpaid' transaction without a debt row, and a debt row whose
\* transaction was deleted
C21_Witness ==
  /\ AllCompleted
  /\ last.code = 500
  /\ \E d \in DOMAIN debts :
       /\ PaymentsOf(d) # <<>>
       /\ debts[d].paid_amount # PaymentSum(payments, d)
  /\ \E t \in DOMAIN transactions :
       /\ transactions[t].payment_status = "unpaid"
       /\ DebtsOfTx(t) = {}
  /\ \E d \in DOMAIN debts :
       /\ debts[d].transaction_id \notin DOMAIN transactions
       /\ debts[d].transaction_id < nextTx

====
